---- MODULE Spec2Model ----
(***************************************************************************)
(* Verification model of the WiFi Silent Disco runtime controller:         *)
(*   scripts/start_stream_server.py  (EnvironmentManager, resolve_ports,   *)
(*                                    get_compose_status, the guest HTTP   *)
(*                                    service, run_compose_command,        *)
(*                                    StreamServerGUI)                     *)
(*   SilentDisco-Dynamic/manage.py   (find_available_port,                 *)
(*                                    prepare_runtime_configuration,       *)
(*                                    run_compose)                         *)
(*                                                                         *)
(* Text is modelled as a sequence of one-character strings, so that        *)
(* parsing (int, split, strip) and formatting (str, f-strings) are         *)
(* computed the way the code computes them.                                *)
(***************************************************************************)
EXTENDS Integers, Sequences, FiniteSets, TLC

VARIABLES
    fileExists,   \* does the .env file exist on disk
    fileText,     \* content of the .env file, a sequence of characters
    values,       \* EnvironmentManager.values: ordered mapping, <<key, value>> pairs
    pc,           \* "construct" | "ready" | "exit" (SystemExit raised)
    firstLoad,    \* history: the record produced by the first load()
    stage,        \* history: "fresh" | "loaded" | "saved" | "reloaded"
    absentAtLoad, \* history: TRUE once load() ran while the file was absent
    busyTcp,      \* TCP ports held by other software: a set of intervals <<lo, hi>>
    busyUdp,      \* UDP ports held by other software: a set of intervals <<lo, hi>>
    updated,      \* the mapping built by the last resolve_ports call
    outcome,      \* how the last resolve_ports call ended: "none" | "returned" | an error
    valuesBefore, \* history: the record when the last resolve_ports call began
    textBefore,   \* history: the file when the last resolve_ports call began
    quiet,        \* history: resolve_ports calls returned in a row since the busy ports last changed
    written,      \* history: the texts the last resolve_ports call wrote to the file, in order
    call,         \* the last port search: which function, its arguments, its result
    services,     \* the unit list "docker compose ps --format json" reports now
    polled,       \* history: the unit list the last status query parsed
    status,       \* the ComposeStatus returned by the last get_compose_status call
    tool,         \* the container tooling of the host: what is installed, what answers
    result,       \* the last run_compose_command / run_compose call and how it ended
    raised,       \* the error the last get_compose_status call let through, or "none"
    asked,        \* history: <<the form of text the last status query read>>, <<>> before the first
    met,          \* history: <<the tooling the call recorded in result met>>
    server,       \* BackgroundHTTPServer._server: <<>> (None) or <<the GuestTrackerHTTPServer>>
    thread,       \* BackgroundHTTPServer._thread: "None" | "alive"
    handlers,     \* the request-handler threads: where each is in register_client
    clock,        \* the latest value time.time() returned
    made,         \* history: how many GuestTrackerHTTPServer objects were constructed
    pinged,       \* history: the addresses registered since the server was constructed
    adds,         \* history: how many registrations began (line 133 executed)
    owner,        \* history: the registration whose timestamp last_ping holds
    seen,         \* what refresh_status read: the count, then the timestamp
    api,          \* history: the last start() / stop() call and whether it found a live thread
    server_port,  \* BackgroundHTTPServer.port: the port the guest server binds, 0 before it is constructed
    got,          \* history: the last GET the guest server handled: its path and the caller's address
    window,       \* the interface: "init" | "open" | "closed" | "crashed"
    status_queue, \* StreamServerGUI.status_queue: the messages put and not yet taken
    produced,     \* history: every message put on status_queue, in order
    delivered,    \* history: every message taken from status_queue, in order
    log,          \* the lines appended to the log panel
    server_status_var, \* the server state shown
    stream_status_var, \* the stream state shown
    guest_count_var,   \* the guest count shown
    executed      \* history: the slow operations executed and the thread that executed each

envVars == <<fileExists, fileText, values, pc, firstLoad, stage, absentAtLoad>>

portVars == <<busyTcp, busyUdp, updated, outcome, valuesBefore, textBefore, quiet, written>>

statusVars == <<services, polled, status>>

composeVars == <<tool, result, raised, asked, met>>

guestVars == <<server, thread, handlers, clock, made, pinged, adds, owner, seen, api, server_port, got>>

guiVars ==
    <<window, status_queue, produced, delivered, log, server_status_var,
      stream_status_var, guest_count_var, executed>>

serviceVars == <<composeVars, guestVars, guiVars>>

vars == <<envVars, portVars, call, statusVars, serviceVars>>

----------------------------------------------------------------------------
(* Bounds of the model *)

\* longest configuration file (in characters) enumerated for the store
MaxFileLen == 7

----------------------------------------------------------------------------
(* Text helpers: Python str operations on sequences of characters *)

NL == "\n"

\* characters removed by str.strip() at either end of a line
Whitespace == {" ", NL}

RECURSIVE lstrip(_)
lstrip(s) ==
    IF s # <<>> /\ Head(s) \in Whitespace THEN lstrip(Tail(s)) ELSE s

RECURSIVE rstrip(_)
rstrip(s) ==
    IF s # <<>> /\ s[Len(s)] \in Whitespace
    THEN rstrip(SubSeq(s, 1, Len(s) - 1))
    ELSE s

\* str.strip()
strip(s) == rstrip(lstrip(s))

\* index of the first occurrence of character c in s, 0 when there is none
RECURSIVE IndexFrom(_, _, _)
IndexFrom(s, c, i) ==
    IF i > Len(s) THEN 0
    ELSE IF s[i] = c THEN i
    ELSE IndexFrom(s, c, i + 1)

IndexOf(s, c) == IndexFrom(s, c, 1)

\* s.split(c, 1): the parts before and after the first c (c must occur in s)
SplitOnce(s, c) ==
    LET i == IndexOf(s, c)
    IN  <<SubSeq(s, 1, i - 1), SubSeq(s, i + 1, Len(s))>>

\* iteration "for line in fp": the text cut at every newline
RECURSIVE SplitLines(_)
SplitLines(text) ==
    LET i == IndexOf(text, NL)
    IN  IF text = <<>> THEN <<>>
        ELSE IF i = 0 THEN <<text>>
        ELSE <<SubSeq(text, 1, i - 1)>> \o SplitLines(SubSeq(text, i + 1, Len(text)))

----------------------------------------------------------------------------
(* Ordered mapping (Python dict): a sequence of <<key, value>> pairs *)

Keys(d) == {d[i][1] : i \in 1..Len(d)}

HasKey(d, k) == \E i \in 1..Len(d) : d[i][1] = k

\* dict.get(key): the stored value; callers test HasKey for the None case
get(d, k) == d[CHOOSE i \in 1..Len(d) : d[i][1] = k][2]

\* d[key] = value keeping the slot of an existing key, appending a new one
setitem_append(d, k, v) == Append(d, <<k, v>>)

setitem(d, k, v) ==
    IF HasKey(d, k)
    THEN [i \in 1..Len(d) |-> IF d[i][1] = k THEN <<k, v>> ELSE d[i]]
    ELSE Append(d, <<k, v>>)

UniqueKeys(d) == \A i, j \in 1..Len(d) : d[i][1] = d[j][1] => i = j

----------------------------------------------------------------------------
(* EnvironmentManager.load / save *)

\* one iteration of the loop in load(): a line updates the record or is skipped
load_line(d, raw) ==
    LET line == strip(raw)
    IN  IF line = <<>> \/ Head(line) = "#" \/ IndexOf(line, "=") = 0
        THEN d
        ELSE LET kv == SplitOnce(line, "=")
             IN  setitem(d, kv[1], kv[2])

RECURSIVE load_lines(_, _)
load_lines(d, lines) ==
    IF lines = <<>> THEN d
    ELSE load_lines(load_line(d, Head(lines)), Tail(lines))

\* the guard of load(): a missing file raises SystemExit("Missing .env file...")
load_outcome_lenient(exists) == "loaded"

load_outcome(exists) == IF ~exists THEN "SystemExit" ELSE "loaded"

\* the body of load() once the file is known to exist
load(d, text) == load_lines(d, SplitLines(text))

\* save(): one "key=value\n" per entry, in dict order
RECURSIVE save(_)
save(d) ==
    IF d = <<>> THEN <<>>
    ELSE Head(d)[1] \o <<"=">> \o Head(d)[2] \o <<NL>> \o save(Tail(d))

----------------------------------------------------------------------------
(* Numbers as text: int() and str() *)

Digits == <<"0", "1", "2", "3", "4", "5", "6", "7", "8", "9">>

DigitChars == {Digits[i] : i \in 1..10}

DigitValue(c) == (CHOOSE i \in 1..10 : Digits[i] = c) - 1

\* int(s) accepts a non-empty run of decimal digits (anything else: ValueError)
IsNumber(s) == s # <<>> /\ \A i \in 1..Len(s) : s[i] \in DigitChars

RECURSIVE int(_)
int(s) ==
    IF s = <<>> THEN 0
    ELSE 10 * int(SubSeq(s, 1, Len(s) - 1)) + DigitValue(s[Len(s)])

\* str(n) for n >= 0: decimal digits without leading zeros
RECURSIVE str(_)
str(n) ==
    IF n < 10 THEN <<Digits[n + 1]>>
    ELSE str(n \div 10) \o <<Digits[(n % 10) + 1]>>

----------------------------------------------------------------------------
(* Names of the configuration keys *)

OME_ORIGIN_PORT ==
    <<"O", "M", "E", "_", "O", "R", "I", "G", "I", "N", "_", "P", "O", "R", "T">>
OME_RTMP_PORT ==
    <<"O", "M", "E", "_", "R", "T", "M", "P", "_", "P", "O", "R", "T">>
OME_SRT_PORT ==
    <<"O", "M", "E", "_", "S", "R", "T", "_", "P", "O", "R", "T">>
OME_LLHLS_PORT ==
    <<"O", "M", "E", "_", "L", "L", "H", "L", "S", "_", "P", "O", "R", "T">>
OME_LLHLS_TLS_PORT ==
    <<"O", "M", "E", "_", "L", "L", "H", "L", "S", "_", "T", "L", "S", "_", "P", "O", "R", "T">>
OME_TURN_PORT ==
    <<"O", "M", "E", "_", "T", "U", "R", "N", "_", "P", "O", "R", "T">>
OME_WEBRTC_CANDIDATE_PORT_RANGE ==
    <<"O", "M", "E", "_", "W", "E", "B", "R", "T", "C", "_", "C", "A", "N", "D", "I", "D", "A", "T", "E", "_", "P", "O", "R", "T", "_", "R", "A", "N", "G", "E">>
GUEST_HTTP_PORT ==
    <<"G", "U", "E", "S", "T", "_", "H", "T", "T", "P", "_", "P", "O", "R", "T">>
OME_STREAM_NAME ==
    <<"O", "M", "E", "_", "S", "T", "R", "E", "A", "M", "_", "N", "A", "M", "E">>

\* PORT_VARIABLES, in dict order: <<key, protocol tag>>
PORT_VARIABLES ==
    << <<OME_ORIGIN_PORT, "tcp">>,
       <<OME_RTMP_PORT, "tcp">>,
       <<OME_SRT_PORT, "udp">>,
       <<OME_LLHLS_PORT, "tcp">>,
       <<OME_LLHLS_TLS_PORT, "tcp">>,
       <<OME_TURN_PORT, "tcp">>,
       <<OME_WEBRTC_CANDIDATE_PORT_RANGE, "udp-range">>,
       <<GUEST_HTTP_PORT, "tcp">> >>

----------------------------------------------------------------------------
(* Specification SpecEnv: the environment store on arbitrary small files *)

Alphabet == {"A", "=", "#", " ", NL}

Texts == UNION {[1..n -> Alphabet] : n \in 0..MaxFileLen}

\* the port reconciler has not run
PortsIdle ==
    /\ busyTcp = {}
    /\ busyUdp = {}
    /\ updated = <<>>
    /\ outcome = "none"
    /\ valuesBefore = <<>>
    /\ textBefore = <<>>
    /\ quiet = 0
    /\ written = <<>>

\* a record of one port search: op is "none", "stream" (start_stream_server's
\* find_available_port), "manage" (manage.py's) or "prepare"
\* (prepare_runtime_configuration, whose two results are port and port2)
Call(op, start, proto, exclude, second, kind, port, port2) ==
    [op |-> op, start |-> start, proto |-> proto, exclude |-> exclude,
     second |-> second, kind |-> kind, port |-> port, port2 |-> port2]

NoCall == Call("none", 0, "tcp", {}, 0, "none", 0, 0)

\* ComposeStatus(running, containers, published_ports); valid is FALSE until
\* get_compose_status has returned one
ComposeStatus(running, containers, published_ports) ==
    [valid |-> TRUE, running |-> running, containers |-> containers,
     published_ports |-> published_ports]

NoStatus ==
    [valid |-> FALSE, running |-> FALSE, containers |-> 0, published_ports |-> <<>>]

\* no status query has been made
StatusIdle ==
    /\ services = <<>>
    /\ polled = <<>>
    /\ status = NoStatus

\* the container tooling of a host: is the docker executable on the PATH, is
\* the standalone docker-compose executable on the PATH, does the daemon
\* answer, how does a compose subcommand exit once the daemon answers
Tooling(docker, legacy, daemon, exit) ==
    [docker |-> docker, legacy |-> legacy, daemon |-> daemon, exit |-> exit]

NoTooling == Tooling("missing", FALSE, "down", "nonzero")

\* one lifecycle call: the function, its subcommand, the error it raised (or
\* "none"), the text of that error, and the processes it ran, in order
Outcome(fn, args, error, message, invoked) ==
    [fn |-> fn, args |-> args, raised |-> error, message |-> message, invoked |-> invoked]

NoOutcome == Outcome("none", "none", "none", "", <<>>)

\* no lifecycle call and no status query has been made
ComposeIdle ==
    /\ tool = NoTooling
    /\ result = NoOutcome
    /\ raised = "none"
    /\ asked = <<>>
    /\ met = <<>>

\* what the status panel has read of the guest registry
Seen(pc_, count, upto, last, from) ==
    [pc |-> pc_, count |-> count, upto |-> upto, last |-> last, from |-> from]

NoSeen == Seen("idle", 0, 0, 0, 0)

NoOp == [name |-> "none", alive |-> FALSE]

\* no guest server has been constructed
\* no GET handled yet
NoGet == [path |-> <<>>, ip |-> "none"]

GuestIdle ==
    /\ server = <<>>
    /\ thread = "None"
    /\ handlers = <<>>
    /\ clock = 0
    /\ made = 0
    /\ pinged = {}
    /\ adds = 0
    /\ owner = 0
    /\ seen = NoSeen
    /\ api = NoOp
    /\ got = NoGet

\* StreamServerGUI.__init__ up to line 345: the window is not yet laid out
GuiIdle ==
    /\ window = "init"
    /\ status_queue = <<>>
    /\ produced = <<>>
    /\ delivered = <<>>
    /\ log = <<>>
    /\ server_status_var = "Unknown"
    /\ stream_status_var = "Not checked"
    /\ guest_count_var = "0"
    /\ executed = {}

ServiceIdle == ComposeIdle /\ GuestIdle /\ GuiIdle /\ server_port = 0

InitEnv ==
    /\ fileExists \in BOOLEAN
    /\ fileText \in (IF fileExists THEN Texts ELSE {<<>>})
    /\ values = <<>>
    /\ pc = "construct"
    /\ firstLoad = <<>>
    /\ stage = "fresh"
    /\ absentAtLoad = FALSE
    /\ PortsIdle
    /\ call = NoCall
    /\ StatusIdle
    /\ ServiceIdle

\* EnvironmentManager.__init__: values = {} then load()
Load ==
    /\ pc = "construct"
    /\ IF load_outcome(fileExists) = "SystemExit"
       THEN /\ pc' = "exit"
            /\ absentAtLoad' = TRUE
            /\ UNCHANGED <<values, firstLoad, stage>>
       ELSE /\ values' = load(values, fileText)
            /\ pc' = "ready"
            /\ absentAtLoad' = (absentAtLoad \/ ~fileExists)
            /\ firstLoad' = IF stage = "fresh" THEN values' ELSE firstLoad
            /\ stage' = IF stage = "fresh" THEN "loaded"
                        ELSE IF stage = "saved" THEN "reloaded" ELSE stage
    /\ UNCHANGED <<fileExists, fileText, portVars, call, statusVars, serviceVars>>

\* EnvironmentManager.save()
Save ==
    /\ pc = "ready"
    /\ fileText' = save(values)
    /\ fileExists' = TRUE
    /\ stage' = IF stage = "loaded" THEN "saved" ELSE stage
    /\ UNCHANGED <<values, pc, firstLoad, absentAtLoad, portVars, call, statusVars, serviceVars>>

\* the controller is started again: a new EnvironmentManager is constructed
Restart ==
    /\ pc = "ready"
    /\ stage = "saved"
    /\ values' = <<>>
    /\ pc' = "construct"
    /\ UNCHANGED <<fileExists, fileText, firstLoad, stage, absentAtLoad, portVars, call, statusVars, serviceVars>>

NextEnv == Load \/ Save \/ Restart

SpecEnv == InitEnv /\ [][NextEnv]_vars

----------------------------------------------------------------------------
(* Claims about the environment store *)

\* the text save() is claimed to write for a record: one key=value line per entry
EntryLines(d) == [i \in 1..Len(d) |-> d[i][1] \o <<"=">> \o d[i][2]]

\* C8 (as stated): when the configuration file is absent, load() does not
\* error: it yields an empty record and the caller continues.
C8_LoadMissingYieldsEmpty ==
    absentAtLoad => (pc = "ready" /\ values = <<>>)

\* C8 (amended): when the configuration file is absent, load() raises
\* SystemExit: the process stops, no record is handed to the caller; and the
\* process stops at this layer for no other reason.
C8_LoadMissingExits ==
    /\ absentAtLoad => pc = "exit"
    /\ pc = "exit" => (absentAtLoad /\ ~fileExists)

C8_Witness == absentAtLoad /\ ~fileExists /\ pc = "exit"

\* C9: the record round-trips through load then save: keys are unique, the
\* saved file holds exactly one key=value line per entry in first-loaded
\* order (no comment, no blank line), and loading the saved file again
\* gives the same ordered mapping as the first load.
C9_RoundTrip ==
    /\ UniqueKeys(values)
    /\ stage \in {"saved", "reloaded"} =>
          /\ SplitLines(fileText) = EntryLines(firstLoad)
          /\ \A i \in 1..Len(SplitLines(fileText)) :
                LET line == SplitLines(fileText)[i]
                IN  strip(line) # <<>> /\ Head(line) # "#"
    /\ stage = "reloaded" => values = firstLoad

C9_Witness ==
    /\ stage = "reloaded"
    /\ Len(values) = 2
    /\ values[2][2] # <<>>

----------------------------------------------------------------------------
(* Port probing and reconciliation: scripts/start_stream_server.py *)

\* the highest port number socket.bind() accepts; beyond it bind raises
\* OverflowError, which the probes do not catch
MaxPort == 65535

\* number of candidates find_available_port tries: range(0, 50)
ScanWindow == 50

\* is the port inside one of the intervals held by other software
Held(busy, port) == \E iv \in busy : iv[1] <= port /\ port <= iv[2]

\* the TCP port the controller's own guest server listens on while its
\* thread runs: GuestTrackerHTTPServer(("", self.port), ...) of start()
Listening == IF thread = "alive" THEN {<<server_port, server_port>>} ELSE {}

\* probe_tcp_port: "free" (True), "busy" (False: bind raised OSError), or
\* "OverflowError" (bind rejected the port number)
probe_tcp_port(port) ==
    IF port > MaxPort THEN "OverflowError"
    ELSE IF Held(busyTcp \cup Listening, port) THEN "busy"
    ELSE "free"

\* probe_udp_port
probe_udp_port(port) ==
    IF port > MaxPort THEN "OverflowError"
    ELSE IF Held(busyUdp, port) THEN "busy"
    ELSE "free"

\* the probe chosen by: probe_udp_port(..) if proto == "udp" else probe_tcp_port(..)
probe_crossed(port, protocol) ==
    IF protocol = "udp" THEN probe_tcp_port(port) ELSE probe_udp_port(port)

probe(port, protocol) ==
    IF protocol = "udp" THEN probe_udp_port(port) ELSE probe_tcp_port(port)

\* the loop of find_available_port from a given offset on
RECURSIVE scan(_, _, _)
scan(start_port, protocol, offset) ==
    IF offset >= ScanWindow
    THEN [kind |-> "RuntimeError", port |-> 0]
    ELSE LET candidate == start_port + offset
             available == probe(candidate, protocol)
         IN  IF available = "OverflowError"
             THEN [kind |-> "OverflowError", port |-> 0]
             ELSE IF available = "free"
             THEN [kind |-> "ok", port |-> candidate]
             ELSE scan(start_port, protocol, offset + 1)

\* a scan that starts one above the requested port
find_available_port_next(start_port, protocol) == scan(start_port, protocol, 1)

\* find_available_port(start_port, protocol)
find_available_port(start_port, protocol) == scan(start_port, protocol, 0)

\* the shifted end of a reassigned range: end_port + diff
shifted_end_unshifted(end_port, diff) == end_port

shifted_end(end_port, diff) == end_port + diff

\* the test "if new_start == start_port: continue" of the range branch
range_unchanged_never(new_start, start_port) == FALSE

range_unchanged(new_start, start_port) == new_start = start_port

\* the result of resolve_ports: the record, the mapping of changes, how it ended
Resolved(env, upd, how) == [env |-> env, updated |-> upd, outcome |-> how]

\* the udp-range branch of the loop body, for one key present in env
resolve_range(env, upd, key) ==
    LET value == get(env, key)
    IN  IF IndexOf(value, "-") = 0
        THEN Resolved(env, upd, "ValueError")
        ELSE
        LET parts == SplitOnce(value, "-")
        IN  IF ~IsNumber(parts[1]) \/ ~IsNumber(parts[2])
            THEN Resolved(env, upd, "ValueError")
            ELSE
            LET start_port == int(parts[1])
                end_port == int(parts[2])
                found == find_available_port(start_port, "udp")
            IN  IF found.kind # "ok"
                THEN Resolved(env, upd, found.kind)
                ELSE IF range_unchanged(found.port, start_port)
                THEN Resolved(env, upd, "continue")
                ELSE
                LET diff == found.port - start_port
                    new_end == shifted_end(end_port, diff)
                    text == str(found.port) \o <<"-">> \o str(new_end)
                IN  Resolved(setitem(env, key, text), setitem(upd, key, text), "continue")

\* the single-port branch of the loop body, for one key present in env
resolve_single(env, upd, key, proto) ==
    LET value == get(env, key)
    IN  IF ~IsNumber(value)
        THEN Resolved(env, upd, "ValueError")
        ELSE
        LET port == int(value)
            available == probe(port, proto)
        IN  IF available = "OverflowError"
            THEN Resolved(env, upd, "OverflowError")
            ELSE IF available = "free"
            THEN Resolved(env, upd, "continue")
            ELSE
            LET found == find_available_port(port, proto)
            IN  IF found.kind # "ok"
                THEN Resolved(env, upd, found.kind)
                ELSE Resolved(setitem(env, key, str(found.port)),
                              setitem(upd, key, str(found.port)), "continue")

\* the loop of resolve_ports from the i-th monitored variable on; an error
\* raised in the body ends the call with the record as mutated so far
RECURSIVE resolve_from(_, _, _)
resolve_from(i, env, upd) ==
    IF i > Len(PORT_VARIABLES)
    THEN Resolved(env, upd, "returned")
    ELSE
    LET key == PORT_VARIABLES[i][1]
        proto == PORT_VARIABLES[i][2]
    IN  IF ~HasKey(env, key)
        THEN resolve_from(i + 1, env, upd)
        ELSE
        LET step == IF proto = "udp-range"
                    THEN resolve_range(env, upd, key)
                    ELSE resolve_single(env, upd, key, proto)
        IN  IF step.outcome = "continue"
            THEN resolve_from(i + 1, step.env, step.updated)
            ELSE step

\* resolve_ports(env) up to, not including, "if updated: env.save()"
resolve_ports(env) == resolve_from(1, env, <<>>)

\* does a finished resolve_ports call write the file: "if updated: env.save()"
saves(res) == res.outcome = "returned" /\ res.updated # <<>>

----------------------------------------------------------------------------
(* Specification SpecPorts: the port reconciler on a configuration file    *)
(* while other software binds further ports (a port once held stays held   *)
(* for the rest of the run, which keeps the reachable records finite)      *)

\* keys the configuration file may lack
OptionalKeys == {OME_SRT_PORT}

\* candidate-range values found in the configuration file
RangeChoices == {str(10000) \o <<"-">> \o str(10009), str(10040) \o <<"-">> \o str(10059)}

Entry(key, value) == key \o <<"=">> \o value \o <<NL>>

\* the .env file the setup script leaves behind: a comment, the monitored
\* ports, one unmonitored key
EnvFile(missing, range) ==
    <<"#", " ", "p", "o", "r", "t", "s">> \o <<NL>>
    \o Entry(OME_STREAM_NAME, <<"s", "t", "r", "e", "a", "m">>)
    \o Entry(OME_ORIGIN_PORT, str(9000))
    \o Entry(OME_RTMP_PORT, str(1935))
    \o (IF OME_SRT_PORT \in missing THEN <<>> ELSE Entry(OME_SRT_PORT, str(9999)))
    \o Entry(OME_LLHLS_PORT, str(3333))
    \o Entry(OME_LLHLS_TLS_PORT, str(3334))
    \o (IF OME_TURN_PORT \in missing THEN <<>> ELSE Entry(OME_TURN_PORT, str(3478)))
    \o Entry(OME_WEBRTC_CANDIDATE_PORT_RANGE, range)
    \o Entry(GUEST_HTTP_PORT, str(8088))

\* intervals of TCP ports other software may hold
TcpHolds == {<<9000, 9000>>, <<1935, 1936>>, <<1935, 1984>>}

\* intervals of UDP ports other software may hold
UdpHolds == {<<9999, 9999>>, <<10000, 10000>>, <<10000, 10049>>}

InitPorts ==
    /\ \E missing \in SUBSET OptionalKeys, range \in RangeChoices :
          fileText = EnvFile(missing, range)
    /\ fileExists = TRUE
    /\ values = load(<<>>, fileText)
    /\ pc = "ready"
    /\ firstLoad = values
    /\ stage = "loaded"
    /\ absentAtLoad = FALSE
    /\ busyTcp = {}
    /\ busyUdp = {}
    /\ updated = <<>>
    /\ outcome = "none"
    /\ valuesBefore = values
    /\ textBefore = fileText
    /\ quiet = 0
    /\ written = <<>>
    /\ call = NoCall
    /\ StatusIdle
    /\ ServiceIdle

\* other software binds TCP ports
BindTcp ==
    /\ \E iv \in TcpHolds \ busyTcp : busyTcp' = busyTcp \cup {iv}
    /\ quiet' = 0
    /\ UNCHANGED <<envVars, busyUdp, updated, outcome, valuesBefore, textBefore, written, call, statusVars, serviceVars>>

\* other software binds UDP ports
BindUdp ==
    /\ \E iv \in UdpHolds \ busyUdp : busyUdp' = busyUdp \cup {iv}
    /\ quiet' = 0
    /\ UNCHANGED <<envVars, busyTcp, updated, outcome, valuesBefore, textBefore, written, call, statusVars, serviceVars>>

\* one call resolve_ports(self.env), "Analyze Ports": the loop, then the save
ResolvePorts ==
    /\ pc = "ready"
    /\ LET res == resolve_ports(values)
       IN  /\ values' = res.env
           /\ updated' = res.updated
           /\ outcome' = res.outcome
           /\ fileText' = IF saves(res) THEN save(res.env) ELSE fileText
           /\ written' = IF saves(res) THEN <<save(res.env)>> ELSE <<>>
           /\ quiet' = IF res.outcome # "returned" THEN 0
                       ELSE IF quiet < 2 THEN quiet + 1 ELSE 2
    /\ valuesBefore' = values
    /\ textBefore' = fileText
    /\ UNCHANGED <<fileExists, pc, firstLoad, stage, absentAtLoad, busyTcp, busyUdp, call, statusVars, serviceVars>>

NextPorts == BindTcp \/ BindUdp \/ ResolvePorts

SpecPorts == InitPorts /\ [][NextPorts]_vars

(* Specification SpecTop: the port reconciler on a configuration whose      *)
(* candidate range ends at the top of the port space                       *)

\* a candidate range that ends at port 65535
TopRange == str(65500) \o <<"-">> \o str(65535)

\* intervals of UDP ports other software may hold: the first port of the
\* range, the port below it, and the whole range
TopUdpHolds == {<<9999, 9999>>, <<65500, 65500>>, <<65500, 65535>>}

InitTop ==
    /\ fileText = EnvFile({}, TopRange)
    /\ fileExists = TRUE
    /\ values = load(<<>>, fileText)
    /\ pc = "ready"
    /\ firstLoad = values
    /\ stage = "loaded"
    /\ absentAtLoad = FALSE
    /\ busyTcp = {}
    /\ busyUdp = {}
    /\ updated = <<>>
    /\ outcome = "none"
    /\ valuesBefore = values
    /\ textBefore = fileText
    /\ quiet = 0
    /\ written = <<>>
    /\ call = NoCall
    /\ StatusIdle
    /\ ServiceIdle

\* other software binds UDP ports at the top of the port space
BindTopUdp ==
    /\ \E iv \in TopUdpHolds \ busyUdp : busyUdp' = busyUdp \cup {iv}
    /\ quiet' = 0
    /\ UNCHANGED <<envVars, busyTcp, updated, outcome, valuesBefore, textBefore, written, call, statusVars, serviceVars>>

NextTop == BindTcp \/ BindTopUdp \/ ResolvePorts

SpecTop == InitTop /\ [][NextTop]_vars

----------------------------------------------------------------------------
(* Claims about the port reconciler (SpecPorts, SpecTop) *)

\* what socket.bind would answer for a port under the ports now held
Bindable(port, proto) ==
    IF proto = "udp" THEN ~Held(busyUdp, port) ELSE ~Held(busyTcp, port)

\* <<start, end>> of a stored range value "start-end"
RangeOf(d, key) ==
    LET parts == SplitOnce(get(d, key), "-")
    IN  <<int(parts[1]), int(parts[2])>>

\* the port a monitored variable asks for: its value, or the start of its range
WantedPort(d, i) ==
    IF PORT_VARIABLES[i][2] = "udp-range"
    THEN RangeOf(d, PORT_VARIABLES[i][1])[1]
    ELSE int(get(d, PORT_VARIABLES[i][1]))

\* the transport a monitored variable is probed on
Transport(i) == IF PORT_VARIABLES[i][2] = "tcp" THEN "tcp" ELSE "udp"

\* the monitored variables the record held when the last call began
Monitored == {i \in 1..Len(PORT_VARIABLES) : HasKey(valuesBefore, PORT_VARIABLES[i][1])}

SinglePorts == {i \in Monitored : PORT_VARIABLES[i][2] # "udp-range"}

\* the last resolve_ports call returned and the held ports are those it probed
JustReturned == outcome = "returned" /\ quiet >= 1

\* C1: whenever resolve_ports reassigns the start of the udp-range variable,
\* the new range is exactly as wide as the one it replaces.
C1_RangeWidthPreserved ==
    HasKey(values, OME_WEBRTC_CANDIDATE_PORT_RANGE) =>
        LET old == RangeOf(valuesBefore, OME_WEBRTC_CANDIDATE_PORT_RANGE)
            new == RangeOf(values, OME_WEBRTC_CANDIDATE_PORT_RANGE)
        IN  new[1] # old[1] => new[2] - new[1] = old[2] - old[1]

C1_Witness ==
    /\ outcome = "returned"
    /\ HasKey(updated, OME_WEBRTC_CANDIDATE_PORT_RANGE)
    /\ RangeOf(values, OME_WEBRTC_CANDIDATE_PORT_RANGE)[1]
         > RangeOf(valuesBefore, OME_WEBRTC_CANDIDATE_PORT_RANGE)[1] + 1

\* C2: when resolve_ports returns, every monitored single-port variable whose
\* port was bound is mapped to a different port that is bindable on the
\* transport of its tag (TCP for tcp, UDP for udp).
C2_BoundPortReplaced ==
    JustReturned =>
        \A i \in SinglePorts :
            LET key == PORT_VARIABLES[i][1]
                old == WantedPort(valuesBefore, i)
            IN  ~Bindable(old, Transport(i)) =>
                    /\ HasKey(updated, key)
                    /\ int(get(updated, key)) # old
                    /\ Bindable(int(get(updated, key)), Transport(i))

C2_Witness ==
    /\ JustReturned
    /\ \E i \in SinglePorts :
          Transport(i) = "tcp" /\ ~Bindable(WantedPort(valuesBefore, i), "tcp")
    /\ \E i \in SinglePorts :
          Transport(i) = "udp" /\ ~Bindable(WantedPort(valuesBefore, i), "udp")

\* C5: resolve_ports reassigns only on a bind failure and returns only what
\* changed: a monitored variable whose port (or range start) was bindable keeps
\* its stored value and is absent from the returned mapping, and every key of
\* the returned mapping is stored with a value that differs from the one
\* before the call.
C5_OnlyChangedReturned ==
    JustReturned =>
        /\ \A i \in Monitored :
              LET key == PORT_VARIABLES[i][1]
              IN  Bindable(WantedPort(valuesBefore, i), Transport(i)) =>
                      /\ get(values, key) = get(valuesBefore, key)
                      /\ ~HasKey(updated, key)
        /\ \A j \in 1..Len(updated) :
              LET key == updated[j][1]
              IN  /\ get(values, key) = updated[j][2]
                  /\ get(values, key) # get(valuesBefore, key)

C5_Witness ==
    /\ JustReturned
    /\ Len(updated) >= 2
    /\ \E i \in Monitored : Bindable(WantedPort(valuesBefore, i), Transport(i))

\* C6: resolve_ports is idempotent: applied again directly after a call that
\* returned, with the held ports unchanged, it returns an empty mapping and
\* leaves the record and the file as they were; and applied once when every
\* monitored port is bindable it changes nothing.
C6_Idempotent ==
    /\ (outcome = "returned" /\ quiet = 2) =>
          /\ updated = <<>>
          /\ values = valuesBefore
          /\ fileText = textBefore
    /\ (JustReturned
          /\ \A i \in Monitored : Bindable(WantedPort(valuesBefore, i), Transport(i))) =>
          /\ updated = <<>>
          /\ values = valuesBefore
          /\ fileText = textBefore

C6_Witness ==
    /\ outcome = "returned"
    /\ quiet = 2
    /\ values # firstLoad
    /\ busyTcp # {}
    /\ busyUdp # {}

\* C7: after every operation that mutates the in-memory record has finished,
\* whether resolve_ports returned or stopped with an error part-way through,
\* the file on disk holds exactly the in-memory record.
C7_PersistedOnEveryMutation ==
    outcome # "none" => load(<<>>, fileText) = values

\* did the last resolve_ports call change an entry of the record
EntryChanged == values # valuesBefore

\* C21: a call of resolve_ports in which at least one entry changed performs
\* exactly one save, of the whole record as the call leaves it, and a call in
\* which no entry changed performs no save.
C21_OneSavePerBatch ==
    outcome # "none" =>
        /\ EntryChanged => written = <<save(values)>>
        /\ ~EntryChanged => written = <<>>

\* the same for the calls that return: one save after the loop, none without
\* a change
C21_OneSaveWhenReturned ==
    outcome = "returned" =>
        /\ EntryChanged => written = <<save(values)>> /\ fileText = save(values)
        /\ ~EntryChanged => written = <<>> /\ fileText = textBefore

C21_ReturnedWitness ==
    /\ outcome = "returned"
    /\ Len(updated) >= 2
    /\ written = <<save(values)>>

\* the ports a monitored variable claims in the record d: its port, or every
\* port of its range
Claimed(d, i) ==
    IF PORT_VARIABLES[i][2] = "udp-range"
    THEN RangeOf(d, PORT_VARIABLES[i][1])[1] .. RangeOf(d, PORT_VARIABLES[i][1])[2]
    ELSE {int(get(d, PORT_VARIABLES[i][1]))}

\* two monitored variables of one transport claim a common port in d
Collide(d, i, j) ==
    /\ i # j
    /\ Transport(i) = Transport(j)
    /\ Claimed(d, i) \cap Claimed(d, j) # {}

Collision(d) == \E i \in Monitored, j \in Monitored : Collide(d, i, j)

\* C23 (as stated): when resolve_ports returns, no two monitored variables of
\* one transport claim the same port, provided none did when the call began.
C23_NoCollisionIntroduced ==
    (outcome = "returned" /\ ~Collision(valuesBefore)) => ~Collision(values)

\* a call that returned reassigned a port and no two variables collide
C23_ReassignedApart ==
    /\ outcome = "returned"
    /\ updated # <<>>
    /\ ~Collision(valuesBefore)
    /\ ~Collision(values)

\* the numbers socket.bind accepts as a port to listen on
ValidPorts == 1..65535

\* the numbers a value written for the i-th monitored variable names: the
\* port, or the start and the end of the range
Named(d, i) ==
    IF PORT_VARIABLES[i][2] = "udp-range"
    THEN {RangeOf(d, PORT_VARIABLES[i][1])[1], RangeOf(d, PORT_VARIABLES[i][1])[2]}
    ELSE {int(get(d, PORT_VARIABLES[i][1]))}

\* C24 (as stated): every value resolve_ports writes names valid ports only
\* (a reassigned port, and the start and the shifted end of a reassigned
\* range, lie in 1..65535), and a call that does not return ends with the
\* RuntimeError "Unable to find available ... port", also for ports and
\* ranges close to 65535.
C24_WritesValidPorts ==
    /\ \A i \in Monitored :
          HasKey(updated, PORT_VARIABLES[i][1]) => Named(updated, i) \subseteq ValidPorts
    /\ outcome \in {"none", "returned", "RuntimeError"}

\* the part about the reassigned single ports and the range start
C24_StartsValid ==
    \A i \in Monitored :
        HasKey(updated, PORT_VARIABLES[i][1]) => WantedPort(updated, i) \in ValidPorts

\* a call that ends with the error bind raises for a number above 65535
C24_Overflow == outcome = "OverflowError"

\* a call that returned a range whose end is above 65535
C24_EndAboveTop ==
    /\ outcome = "returned"
    /\ HasKey(updated, OME_WEBRTC_CANDIDATE_PORT_RANGE)
    /\ RangeOf(updated, OME_WEBRTC_CANDIDATE_PORT_RANGE)[1] \in ValidPorts
    /\ RangeOf(updated, OME_WEBRTC_CANDIDATE_PORT_RANGE)[2] > 65535

----------------------------------------------------------------------------
(* Port search of SilentDisco-Dynamic/manage.py *)

\* first candidate of the scan: range(1024, 65535)
LowPort == 1024

\* end of the scan, not itself a candidate: range(1024, 65535)
ScanEnd == 65535

\* port_available(port): a TCP bind; "free", "busy" or "OverflowError"
port_available(port) ==
    IF port > MaxPort THEN "OverflowError"
    ELSE IF Held(busyTcp, port) THEN "busy"
    ELSE "free"

\* the candidates of "for candidate in range(1024, 65535)", in scan order
manage_candidates_inclusive == LowPort..ScanEnd

manage_candidates == LowPort..(ScanEnd - 1)

\* the test of the loop body: not skipped and bindable
Accepted(candidate, exclude_set) ==
    candidate \notin exclude_set /\ port_available(candidate) = "free"

\* the early return "if port_available(preferred): return preferred"
prefers(preferred, exclude) == port_available(preferred) = "free"

\* where the scan can first succeed: a first accepted candidate is LowPort or
\* follows a rejected one, which is an excluded port or the top of a held interval
Landmarks(exclude_set) ==
    {LowPort} \cup {iv[2] + 1 : iv \in busyTcp} \cup {e + 1 : e \in exclude_set}

\* manage.py find_available_port(preferred, exclude=...): the loop returns the
\* first accepted candidate in scan order, which is the least accepted one
manage_find_available_port(preferred, exclude) ==
    LET exclude_set == {preferred} \cup exclude
        accepted == {c \in Landmarks(exclude_set) :
                        c \in manage_candidates /\ Accepted(c, exclude_set)}
    IN  IF port_available(preferred) = "OverflowError"
        THEN [kind |-> "OverflowError", port |-> 0]
        ELSE IF prefers(preferred, exclude)
        THEN [kind |-> "ok", port |-> preferred]
        ELSE IF accepted # {}
        THEN [kind |-> "ok", port |-> CHOOSE c \in accepted : \A d \in accepted : c <= d]
        ELSE [kind |-> "ConfigurationError", port |-> 0]

\* prepare_runtime_configuration: the two port searches (lines 252-255)
prepare_runtime_configuration(rtmp_port, http_port) ==
    LET rtmp == manage_find_available_port(rtmp_port, {})
    IN  IF rtmp.kind # "ok"
        THEN Call("prepare", rtmp_port, "tcp", {}, http_port, rtmp.kind, 0, 0)
        ELSE LET http == manage_find_available_port(http_port, {rtmp.port})
             IN  Call("prepare", rtmp_port, "tcp", {rtmp.port}, http_port, http.kind,
                      rtmp.port, http.port)

----------------------------------------------------------------------------
(* Specification SpecFind: the two port searches on their own, for chosen  *)
(* arguments and chosen sets of held ports                                 *)

\* no configuration file is involved
EnvIdle ==
    /\ fileExists = FALSE
    /\ fileText = <<>>
    /\ values = <<>>
    /\ pc = "ready"
    /\ firstLoad = <<>>
    /\ stage = "fresh"
    /\ absentAtLoad = FALSE

\* the TCP ports other software holds, one scenario per run
TcpScenarios ==
    { {},
      {<<1935, 1935>>},
      {<<1935, 1936>>, <<8080, 8080>>},
      {<<1024, 1024>>, <<8080, 8080>>, <<1935, 1935>>},
      {<<1935, 1984>>},
      {<<65530, 65535>>},
      {<<65500, 65534>>},
      {<<1024, 65534>>},
      {<<1024, 65535>>} }

\* the UDP ports other software holds
UdpScenarios == { {}, {<<1935, 1935>>}, {<<1935, 1984>>} }

\* ports asked for
PortChoices == {1024, 1935, 8080, 65500, 65530}

InitFind ==
    /\ EnvIdle
    /\ busyTcp \in TcpScenarios
    /\ busyUdp \in UdpScenarios
    /\ updated = <<>>
    /\ outcome = "none"
    /\ valuesBefore = <<>>
    /\ textBefore = <<>>
    /\ quiet = 0
    /\ written = <<>>
    /\ call = NoCall
    /\ StatusIdle
    /\ ServiceIdle

\* start_stream_server.py, lines 298-301: the port of a single-port variable
\* is not available, find_available_port(port, proto) looks for another
FindStream ==
    /\ \E port \in PortChoices, proto \in {"tcp", "udp"} :
          /\ probe(port, proto) = "busy"
          /\ LET found == find_available_port(port, proto)
             IN  call' = Call("stream", port, proto, {}, 0, found.kind, found.port, 0)
    /\ UNCHANGED <<envVars, portVars, statusVars, serviceVars>>

\* manage.py find_available_port(preferred, exclude=exclude)
FindManage ==
    /\ \E preferred \in PortChoices, exclude \in SUBSET {1024, 8080} :
          LET found == manage_find_available_port(preferred, exclude)
          IN  call' = Call("manage", preferred, "tcp", exclude, 0, found.kind, found.port, 0)
    /\ UNCHANGED <<envVars, portVars, statusVars, serviceVars>>

\* manage.py prepare_runtime_configuration on a configuration's two ports
Prepare ==
    /\ \E rtmp_port \in PortChoices, http_port \in PortChoices :
          call' = prepare_runtime_configuration(rtmp_port, http_port)
    /\ UNCHANGED <<envVars, portVars, statusVars, serviceVars>>

NextFind == FindStream \/ FindManage \/ Prepare

SpecFind == InitFind /\ [][NextFind]_vars

----------------------------------------------------------------------------
(* Claims about the port searches (SpecFind) *)

\* the last candidate the 50-candidate window of the stream server's search
\* can try before socket.bind rejects the port number
WindowEnd(start) ==
    IF start + ScanWindow - 1 <= MaxPort THEN start + ScanWindow - 1 ELSE MaxPort

\* C3: port allocation never returns a value of the caller-supplied exclusion
\* set: find_available_port(preferred, exclude=E) returns a port outside E,
\* so prepare_runtime_configuration ends with http_port different from the
\* rtmp_port chosen just before.
C3_NeverReturnsExcluded ==
    /\ (call.op = "manage" /\ call.kind = "ok") => call.port \notin call.exclude
    /\ (call.op = "prepare" /\ call.kind = "ok") => call.port2 # call.port

\* C4 (as stated): when a single port is unavailable, the replacement is the
\* lowest bindable port of the same protocol in 1024..65535 other than the
\* rejected value, and the search fails exactly when no port of that interval
\* is bindable.
C4_LowestFreeFrom1024 ==
    (/\ call.op \in {"stream", "manage"}
     /\ call.exclude = {}
     /\ ~Bindable(call.start, call.proto)) =>
        LET Free(c) == c # call.start /\ Bindable(c, call.proto)
        IN  /\ call.kind = "ok" =>
                /\ call.port \in LowPort..MaxPort
                /\ Free(call.port)
                /\ \A d \in LowPort..(call.port - 1) : ~Free(d)
            /\ call.kind # "ok" <=> \A c \in LowPort..MaxPort : ~Free(c)

\* C4 (amended): when a single port is unavailable, the stream server's search
\* returns the lowest bindable port of the same protocol among the 49 ports
\* above the rejected one, and fails exactly when none of them is bindable
\* (RuntimeError, or OverflowError when the window runs past 65535);
\* manage.py's search returns the lowest bindable TCP port in 1024..65534
\* outside the exclusion set and the rejected value, and fails with
\* ConfigurationError exactly when there is none.
C4_FirstFreeInScanOrder ==
    /\ call.op = "stream" =>
          LET Free(c) == Bindable(c, call.proto)
              last == WindowEnd(call.start)
              none == \A c \in call.start..last : ~Free(c)
          IN  /\ call.kind = "ok" =>
                  /\ call.port \in (call.start + 1)..last
                  /\ Free(call.port)
                  /\ \A d \in call.start..(call.port - 1) : ~Free(d)
              /\ call.kind = "RuntimeError" <=>
                  (none /\ call.start + ScanWindow - 1 <= MaxPort)
              /\ call.kind = "OverflowError" <=>
                  (none /\ call.start + ScanWindow - 1 > MaxPort)
    /\ (call.op = "manage" /\ ~Bindable(call.start, "tcp")) =>
          LET Free(c) == c \notin (call.exclude \cup {call.start}) /\ Bindable(c, "tcp")
          IN  /\ call.kind \in {"ok", "ConfigurationError"}
              /\ call.kind = "ok" =>
                  /\ call.port \in LowPort..(ScanEnd - 1)
                  /\ Free(call.port)
                  /\ \A d \in LowPort..(call.port - 1) : ~Free(d)
              /\ call.kind = "ConfigurationError" =>
                  \A c \in LowPort..(ScanEnd - 1) : ~Free(c)

C4_Witness ==
    /\ call.op = "stream"
    /\ call.kind = "ok"
    /\ ~Bindable(call.start, call.proto)
    /\ call.port > call.start + 1

----------------------------------------------------------------------------
(* get_compose_status: parsing the unit list of the orchestration tool *)

\* bound: the longest unit list reported
MaxUnits == 2

TCP == <<"t", "c", "p">>

UDP == <<"u", "d", "p">>

\* a published-port descriptor of a unit. TargetPort / PublishedPort 0 stands
\* for 0 or an absent key (both are falsy at line 246); Protocol <<>> stands
\* for an absent "Protocol" key
Publisher(target, published, protocol) ==
    [TargetPort |-> target, PublishedPort |-> published, Protocol |-> protocol]

\* a unit record; State "" stands for an absent "State" key
Unit(state, publishers) == [State |-> state, Publishers |-> publishers]

\* item.get("Protocol", "tcp")
protocol_of(item) == IF item.Protocol = <<>> THEN TCP ELSE item.Protocol

\* f"{target}/{protocol}"
port_key(item) == str(item.TargetPort) \o <<"/">> \o protocol_of(item)

\* any(service.get("State") == "running" for service in services)
any_running_all(units) == \A i \in 1..Len(units) : units[i].State = "running"

any_running(units) == \E i \in 1..Len(units) : units[i].State = "running"

\* the inner loop over one unit's descriptors
RECURSIVE add_publishers(_, _)
add_publishers(ports, svc_ports) ==
    IF svc_ports = <<>> THEN ports
    ELSE LET item == Head(svc_ports)
             next == IF item.TargetPort # 0 /\ item.PublishedPort # 0
                     THEN setitem(ports, port_key(item), str(item.PublishedPort))
                     ELSE ports
         IN  add_publishers(next, Tail(svc_ports))

\* the outer loop over the units
RECURSIVE collect_ports(_, _)
collect_ports(ports, units) ==
    IF units = <<>> THEN ports
    ELSE collect_ports(add_publishers(ports, Head(units).Publishers), Tail(units))

\* get_compose_status() once the query succeeded and its output parsed as a list
get_compose_status(units) ==
    ComposeStatus(any_running(units), Len(units), collect_ports(<<>>, units))

----------------------------------------------------------------------------
(* Specification SpecStatus: status queries while units start and stop *)

\* the descriptor lists units are reported with
PublisherLists ==
    { <<>>,
      <<Publisher(80, 8080, TCP)>>,
      <<Publisher(80, 8081, <<>>)>>,
      <<Publisher(80, 8080, TCP), Publisher(80, 8081, TCP)>>,
      <<Publisher(443, 8443, UDP), Publisher(443, 0, TCP)>>,
      <<Publisher(0, 9000, TCP)>> }

UnitStates == {"running", "exited", ""}

Units == {Unit(st, pubs) : st \in UnitStates, pubs \in PublisherLists}

UnitLists == UNION {[1..n -> Units] : n \in 0..MaxUnits}

InitStatus ==
    /\ EnvIdle
    /\ PortsIdle
    /\ call = NoCall
    /\ services \in UnitLists
    /\ polled = <<>>
    /\ status = NoStatus
    /\ ServiceIdle

\* a unit starts or stops between two polls
UnitChangesState ==
    /\ \E i \in 1..Len(services), st \in {"running", "exited"} :
          /\ services[i].State # st
          /\ services' = [services EXCEPT ![i].State = st]
    /\ UNCHANGED <<envVars, portVars, call, polled, status, serviceVars>>

\* get_compose_status(), the query succeeding
GetComposeStatus ==
    /\ status' = get_compose_status(services)
    /\ polled' = services
    /\ UNCHANGED <<envVars, portVars, call, services, serviceVars>>

NextStatus == UnitChangesState \/ GetComposeStatus

SpecStatus == InitStatus /\ [][NextStatus]_vars

----------------------------------------------------------------------------
(* Claims about get_compose_status (SpecStatus) *)

\* every descriptor of the parsed unit list, in report order
RECURSIVE Flatten(_)
Flatten(units) ==
    IF units = <<>> THEN <<>> ELSE Head(units).Publishers \o Flatten(Tail(units))

\* descriptors that name both a target and a published port
IsPublished(d) == d.TargetPort # 0 /\ d.PublishedPort # 0

\* "<targetPort>/<protocol>", the protocol being tcp when none is given
KeyOf(d) ==
    str(d.TargetPort) \o <<"/">> \o (IF d.Protocol = <<>> THEN TCP ELSE d.Protocol)

RunningAndCountRight ==
    /\ status.running = (\E i \in 1..Len(polled) : polled[i].State = "running")
    /\ status.containers = Len(polled)

\* C10 (as stated): running is true iff some unit is in state "running",
\* containerCount is the number of units, and publishedPorts holds, for each
\* published-port descriptor of each unit, the key "<target>/<protocol>"
\* mapped to that descriptor's published port as a string.
C10_EveryDescriptorMapped ==
    status.valid =>
        /\ RunningAndCountRight
        /\ \A k \in 1..Len(Flatten(polled)) :
              LET d == Flatten(polled)[k]
              IN  IsPublished(d) =>
                      /\ HasKey(status.published_ports, KeyOf(d))
                      /\ get(status.published_ports, KeyOf(d)) = str(d.PublishedPort)

\* C10 (amended): running and containerCount as stated; publishedPorts holds
\* exactly the keys "<target>/<protocol>" (tcp when the descriptor gives no
\* protocol) of the descriptors whose target and published port are both
\* present and not 0, each key once, mapped to the published port, as a
\* string, of the last such descriptor with that key in report order.
C10_LastDescriptorWins ==
    status.valid =>
        LET all == Flatten(polled)
            pub == {k \in 1..Len(all) : IsPublished(all[k])}
        IN  /\ RunningAndCountRight
            /\ UniqueKeys(status.published_ports)
            /\ Keys(status.published_ports) = {KeyOf(all[k]) : k \in pub}
            /\ \A k \in pub :
                  (\A later \in pub : later > k => KeyOf(all[later]) # KeyOf(all[k])) =>
                      get(status.published_ports, KeyOf(all[k])) = str(all[k].PublishedPort)

\* one running and one exited unit, with a populated port map
C10_Witness ==
    /\ status.valid
    /\ Len(polled) = 2
    /\ status.running
    /\ \E i \in 1..2 : polled[i].State = "exited"
    /\ Len(status.published_ports) = 2

----------------------------------------------------------------------------
(* Container tooling: ensure_docker_daemon, run_compose_command,           *)
(* get_compose_status (start_stream_server.py) and run_compose (manage.py) *)

\* one process run by subprocess.run and how it ended
Ran(cmd, ended) == [cmd |-> cmd, ended |-> ended]

\* subprocess.run(["docker", "info"], check=True): "ok", or the error raised
docker_info(t) ==
    IF t.docker = "missing" THEN "FileNotFoundError"
    ELSE IF t.daemon = "down" THEN "CalledProcessError"
    ELSE "ok"

\* subprocess.run(["docker", "compose", *args], check=True)
docker_compose(t) ==
    IF t.docker = "missing" THEN "FileNotFoundError"
    ELSE IF t.daemon = "down" \/ t.exit = "nonzero" THEN "CalledProcessError"
    ELSE "ok"

\* subprocess.run(["docker-compose", *args], check=True)
docker_compose_legacy(t) ==
    IF ~t.legacy THEN "FileNotFoundError"
    ELSE IF t.daemon = "down" \/ t.exit = "nonzero" THEN "CalledProcessError"
    ELSE "ok"

DOCKER_DAEMON_HINT == "Docker Desktop/Engine does not appear to be running."

\* ensure_docker_daemon with one message for both failures of the probe
ensure_docker_daemon_one_message(t) ==
    LET ended == docker_info(t)
        ran   == <<Ran("docker info", ended)>>
    IN  IF ended = "ok"
        THEN Outcome("ensure_docker_daemon", "", "none", "", ran)
        ELSE Outcome("ensure_docker_daemon", "", "RuntimeError", DOCKER_DAEMON_HINT, ran)

ensure_docker_daemon(t) ==
    LET ended == docker_info(t)
        ran   == <<Ran("docker info", ended)>>
    IN  IF ended = "FileNotFoundError"
        THEN Outcome("ensure_docker_daemon", "", "RuntimeError",
                     "Docker is not installed or not available in PATH", ran)
        ELSE IF ended = "CalledProcessError"
        THEN Outcome("ensure_docker_daemon", "", "RuntimeError", DOCKER_DAEMON_HINT, ran)
        ELSE Outcome("ensure_docker_daemon", "", "none", "", ran)

\* run_compose_command without the daemon probe of line 224
run_compose_command_unprobed(t, args) ==
    LET ended == docker_compose(t)
        ran   == <<Ran("docker compose", ended)>>
    IN  IF ended = "FileNotFoundError"
        THEN Outcome("run_compose_command", args, "RuntimeError",
                     "Docker Compose is not installed or not available in PATH", ran)
        ELSE IF ended = "CalledProcessError"
        THEN Outcome("run_compose_command", args, "CalledProcessError", "stderr", ran)
        ELSE Outcome("run_compose_command", args, "none", "", ran)

run_compose_command(t, args) ==
    LET probe_ == ensure_docker_daemon(t)
    IN  IF probe_.raised # "none"
        THEN Outcome("run_compose_command", args, probe_.raised, probe_.message,
                     probe_.invoked)
        ELSE LET ended == docker_compose(t)
                 ran   == probe_.invoked \o <<Ran("docker compose", ended)>>
             IN  IF ended = "FileNotFoundError"
                 THEN Outcome("run_compose_command", args, "RuntimeError",
                              "Docker Compose is not installed or not available in PATH",
                              ran)
                 ELSE IF ended = "CalledProcessError"
                 THEN Outcome("run_compose_command", args, "CalledProcessError",
                              "stderr", ran)
                 ELSE Outcome("run_compose_command", args, "none", "", ran)

\* what get_compose_status returns from its except clause (line 237)
StatusOnError == ComposeStatus(FALSE, 0, <<>>)

\* the forms of text "compose ps --format json" prints:
\*   "units"           a JSON list of unit records (the units reported)
\*   "malformed"       not JSON
\*   "object"          one JSON object with members, not inside a list
\*   "empty_object"    the JSON object {}
\*   "null"            the JSON value null
\*   "strings"         a JSON list of strings
\*   "null_publishers" a list of unit records whose "Publishers" is null
Forms ==
    {"units", "malformed", "object", "empty_object", "null", "strings",
     "null_publishers"}

\* json.loads(result.stdout): the error raised, or "none"
json_loads(form) == IF form = "malformed" THEN "JSONDecodeError" ELSE "none"

\* lines 238-248 on the parsed value: the error raised there, or "none".
\* Iterating a JSON object yields its keys, and a str has no get();
\* null is not iterable
iterate(form, units) ==
    CASE form = "object"  -> "AttributeError"
      [] form = "strings" -> "AttributeError"
      [] form = "null"    -> "TypeError"
      [] form = "null_publishers" -> IF units = <<>> THEN "none" ELSE "TypeError"
      [] OTHER -> "none"

\* the whole of get_compose_status(): the error it lets through (or "none"),
\* the ComposeStatus it returns, and the lifecycle call it made
get_compose_status_from(t, form, units) ==
    LET ps     == run_compose_command(t, "ps")
        caught == {"CalledProcessError", "JSONDecodeError", "RuntimeError"}
        parsed == json_loads(form)
        listed == IF form = "empty_object" THEN <<>> ELSE units
    IN  IF ps.raised \in caught \/ parsed \in caught
        THEN [raised |-> "none", status |-> StatusOnError, ps |-> ps, units |-> <<>>]
        ELSE IF iterate(form, units) # "none"
        THEN [raised |-> iterate(form, units), status |-> NoStatus, ps |-> ps,
              units |-> <<>>]
        ELSE [raised |-> "none", status |-> get_compose_status(listed), ps |-> ps,
              units |-> listed]

(* manage.py *)

\* ensure_compose_command(): the command prefix, or <<>> when it raises
ensure_compose_command(t) ==
    IF t.docker = "installed" THEN <<"docker", "compose">>
    ELSE IF t.legacy THEN <<"docker-compose">>
    ELSE <<>>

\* run_compose(subcommand) of manage.py
run_compose(t, sub) ==
    LET command == ensure_compose_command(t)
    IN  IF command = <<>>
        THEN Outcome("run_compose", sub, "ConfigurationError",
                     "Docker Compose not found. Install Docker Desktop or docker-compose before continuing.",
                     <<>>)
        ELSE LET ended == IF Head(command) = "docker" THEN docker_compose(t)
                          ELSE docker_compose_legacy(t)
                 ran   == <<Ran(IF Head(command) = "docker" THEN "docker compose"
                                ELSE "docker-compose", ended)>>
             IN  IF ended = "FileNotFoundError"
                 THEN Outcome("run_compose", sub, "ConfigurationError",
                              "Docker executable not found.", ran)
                 ELSE IF ended = "CalledProcessError"
                 THEN Outcome("run_compose", sub, "ConfigurationError",
                              "Docker Compose command failed with exit code", ran)
                 ELSE Outcome("run_compose", sub, "none", "", ran)

----------------------------------------------------------------------------
(* Specification SpecCompose: lifecycle calls and status queries against   *)
(* container tooling that comes and goes                                   *)

Toolings ==
    { Tooling(docker, legacy, daemon, exit) :
        docker \in {"installed", "missing"}, legacy \in BOOLEAN,
        daemon \in {"up", "down"}, exit \in {"zero", "nonzero"} }

\* the units reported while the tooling is exercised
ReportedUnits ==
    { <<>>,
      <<Unit("running", <<Publisher(80, 8080, TCP)>>)>>,
      <<Unit("exited", <<>>)>> }

InitCompose ==
    /\ EnvIdle
    /\ PortsIdle
    /\ call = NoCall
    /\ services \in ReportedUnits
    /\ polled = <<>>
    /\ status = NoStatus
    /\ tool \in Toolings
    /\ result = NoOutcome
    /\ raised = "none"
    /\ asked = <<>>
    /\ met = <<>>
    /\ GuestIdle
    /\ GuiIdle
    /\ server_port = 0

\* software is installed or removed, the daemon starts or stops, the project
\* starts or stops building
ToolingChanges ==
    /\ \E t \in Toolings :
          /\ Cardinality({f \in DOMAIN t : t[f] # tool[f]}) = 1
          /\ tool' = t
    /\ UNCHANGED <<envVars, portVars, call, statusVars, result, raised, asked, met, guestVars, guiVars>>

\* run_compose_command(["up", "-d"]) / run_compose_command(["down"])
RunComposeCommand ==
    /\ \E args \in {"up", "down"} : result' = run_compose_command(tool, args)
    /\ met' = <<tool>>
    /\ UNCHANGED <<envVars, portVars, call, statusVars, tool, raised, asked, guestVars, guiVars>>

\* manage.py: run_compose(["up", ...]) / run_compose(["down"]) / run_compose(["ps"])
RunCompose ==
    /\ \E sub \in {"up", "down", "ps"} : result' = run_compose(tool, sub)
    /\ met' = <<tool>>
    /\ UNCHANGED <<envVars, portVars, call, statusVars, tool, raised, asked, guestVars, guiVars>>

\* get_compose_status(), whatever the tooling does and prints
QueryComposeStatus ==
    /\ \E form \in Forms :
          LET r == get_compose_status_from(tool, form, services)
          IN  /\ result' = r.ps
              /\ raised' = r.raised
              /\ status' = r.status
              /\ polled' = r.units
              /\ asked' = <<form>>
    /\ met' = <<tool>>
    /\ UNCHANGED <<envVars, portVars, call, services, tool, guestVars, guiVars>>

NextCompose == ToolingChanges \/ RunComposeCommand \/ RunCompose \/ QueryComposeStatus

SpecCompose == InitCompose /\ [][NextCompose]_vars

----------------------------------------------------------------------------
(* Claims about the status query under failing tooling (SpecCompose) *)

\* the status query cannot produce a list of unit records: the tool is
\* missing, the daemon does not answer, the command exits nonzero, or the
\* text printed is anything but a list of unit records
QueryFails(t, form) ==
    \/ t.docker = "missing"
    \/ t.daemon = "down"
    \/ t.exit = "nonzero"
    \/ form # "units"

\* the call recorded in result is the one of the last status query
JustQueried == asked # <<>> /\ result.fn = "run_compose_command" /\ result.args = "ps"

\* C11 (as stated): status() never propagates an error, and on every failed
\* query (daemon unreachable, tool missing, nonzero exit, output that is not
\* a list of unit records) it returns exactly (running = false,
\* containerCount = 0, publishedPorts = {}).
C11_StatusNeverPropagates ==
    JustQueried =>
        /\ raised = "none"
        /\ QueryFails(met[1], asked[1]) => status = StatusOnError

----------------------------------------------------------------------------
(* Claims about lifecycle calls (SpecCompose) *)

\* why a lifecycle call cannot succeed on tooling t, "none" when it can.
\* manage.py accepts the standalone docker-compose executable in place of docker
Cause(fn, t) ==
    LET installed == \/ t.docker = "installed"
                     \/ fn = "run_compose" /\ t.legacy
    IN  IF ~installed THEN "tool-not-installed"
        ELSE IF t.daemon = "down" THEN "daemon-unreachable"
        ELSE IF t.exit = "nonzero" THEN "nonzero-exit"
        ELSE "none"

\* the call recorded in result is an up or a down
Lifecycle(r) == r.fn \in {"run_compose_command", "run_compose"} /\ r.args \in {"up", "down"}

\* C19 (as stated): for every up/down call, daemon-unreachable,
\* tool-not-installed and nonzero-exit are three distinct kinds of error: two
\* calls of one program that fail for different causes raise errors of
\* different kinds.
C19_ThreeKindsOfError ==
    [][ (/\ met # <<>> /\ met' # <<>>
         /\ Lifecycle(result) /\ Lifecycle(result')
         /\ result.fn = result'.fn
         /\ result.raised # "none" /\ result'.raised # "none"
         /\ Cause(result.fn, met[1]) # Cause(result'.fn, met'[1]))
        => result.raised # result'.raised ]_vars

\* C19 (amended): every up/down call fails exactly when one of the three
\* causes is present. run_compose_command raises RuntimeError both for
\* tool-not-installed and for daemon-unreachable, told apart by the message
\* only, and CalledProcessError for a nonzero exit; manage.py's run_compose
\* raises ConfigurationError for all three, with one message when neither
\* executable is on the PATH and another, shared by daemon-unreachable and
\* nonzero-exit, when the command fails.
C19_KindsAndMessages ==
    (met # <<>> /\ Lifecycle(result)) =>
        LET cause == Cause(result.fn, met[1])
        IN  /\ (result.raised = "none") = (cause = "none")
            /\ result.fn = "run_compose_command" =>
                  /\ cause = "tool-not-installed" =>
                        /\ result.raised = "RuntimeError"
                        /\ result.message = "Docker is not installed or not available in PATH"
                  /\ cause = "daemon-unreachable" =>
                        /\ result.raised = "RuntimeError"
                        /\ result.message = DOCKER_DAEMON_HINT
                  /\ cause = "nonzero-exit" => result.raised = "CalledProcessError"
            /\ result.fn = "run_compose" =>
                  /\ cause # "none" => result.raised = "ConfigurationError"
                  /\ cause = "tool-not-installed" =>
                        result.message = "Docker Compose not found. Install Docker Desktop or docker-compose before continuing."
                  /\ cause \in {"daemon-unreachable", "nonzero-exit"} =>
                        result.message = "Docker Compose command failed with exit code"

\* an up that met a stopped daemon, in the GUI's program
C19_Witness ==
    /\ met # <<>>
    /\ result.fn = "run_compose_command"
    /\ result.args = "up"
    /\ Cause(result.fn, met[1]) = "daemon-unreachable"
    /\ result.raised = "RuntimeError"

\* the daemon probe: a "docker info" process
IsProbe(x) == x.cmd = "docker info"

\* C20 (as stated): every lifecycle and status call, of either program,
\* first performs the daemon-reachability probe; the compose subcommand is
\* run only after the probe of the same call succeeded, and not at all when
\* the probe failed.
C20_ProbeBeforeEveryCommand ==
    result.fn # "none" =>
        /\ result.invoked # <<>> => IsProbe(result.invoked[1])
        /\ \A i \in 1..Len(result.invoked) :
              ~IsProbe(result.invoked[i]) =>
                  /\ i = 2
                  /\ result.invoked[1].ended = "ok"

\* C20 (amended): every up, down and status call of start_stream_server
\* (run_compose_command) first runs the daemon probe, and runs the compose
\* subcommand exactly when that probe succeeded; manage.py's run_compose
\* makes no daemon probe: it runs the compose command whenever a docker or
\* docker-compose executable is on the PATH, and nothing otherwise.
C20_ProbeBeforeGuiCommands ==
    (met # <<>> /\ result.fn # "none") =>
        /\ result.fn = "run_compose_command" =>
              /\ Len(result.invoked) \in {1, 2}
              /\ IsProbe(result.invoked[1])
              /\ (Len(result.invoked) = 2) =
                    (met[1].docker = "installed" /\ met[1].daemon = "up")
              /\ Len(result.invoked) = 2 =>
                    /\ result.invoked[1].ended = "ok"
                    /\ ~IsProbe(result.invoked[2])
        /\ result.fn = "run_compose" =>
              /\ \A i \in 1..Len(result.invoked) : ~IsProbe(result.invoked[i])
              /\ (Len(result.invoked) = 1) = (met[1].docker = "installed" \/ met[1].legacy)
              /\ Len(result.invoked) \in {0, 1}

\* a status call that stopped at the failed probe
C20_Witness ==
    /\ result.fn = "run_compose_command"
    /\ result.args = "ps"
    /\ Len(result.invoked) = 1
    /\ result.invoked[1].ended = "CalledProcessError"

----------------------------------------------------------------------------
(* The guest service: GuestTrackerHTTPServer, GuestRequestHandler and      *)
(* BackgroundHTTPServer. Every request is handled on a thread of its own   *)
(* (ThreadingHTTPServer); register_client takes no lock, so its two        *)
(* statements, and the call of time.time() inside the second, interleave   *)
(* with the other handlers and with the reader.                            *)

\* bound: registrations handled in one behaviour
MaxPings == 3

\* bound: servers constructed in one behaviour
MaxStarts == 2

\* the handler threads that can be inside register_client at once
Handlers == {"h1", "h2"}

\* the addresses guests connect from
Addresses == {"10.0.0.1", "10.0.0.2"}

API_TIME == <<"/", "a", "p", "i", "/", "t", "i", "m", "e">>

\* a path that begins with the characters of the reserved one
API_TIMETABLE == API_TIME \o <<"t", "a", "b", "l", "e">>

\* the request paths guests send
Paths == {API_TIME, API_TIMETABLE, <<"/">>}

\* str.startswith
startswith(s, prefix) ==
    /\ Len(s) >= Len(prefix)
    /\ SubSeq(s, 1, Len(prefix)) = prefix

\* GuestTrackerHTTPServer.__init__
GuestTrackerHTTPServer == [unique_clients |-> {}, last_ping |-> 0]

\* set.add with the set replaced by the newcomer
add_alone(clients, ip) == {ip}

\* self.unique_clients.add(ip)
add(clients, ip) == clients \cup {ip}

\* BackgroundHTTPServer.client_count
client_count(srv) == IF srv # <<>> THEN Cardinality(srv[1].unique_clients) ELSE 0

\* BackgroundHTTPServer.last_ping
last_ping(srv) == IF srv # <<>> THEN srv[1].last_ping ELSE 0

\* a handler thread: "idle", "added" (line 133 done), "timed" (time.time()
\* of line 134 returned, its value not yet stored)
Handler(pc_, n, now) == [pc |-> pc_, n |-> n, now |-> now]

IdleHandler == Handler("idle", 0, 0)

\* start() that does not look at the thread it already has
start_again(srv, thr) == [server |-> <<GuestTrackerHTTPServer>>, thread |-> "alive", made |-> 1]

\* BackgroundHTTPServer.start: the server and thread it leaves, and how many
\* servers it constructed
start(srv, thr) ==
    IF thr # "None"
    THEN [server |-> srv, thread |-> thr, made |-> 0]
    ELSE [server |-> <<GuestTrackerHTTPServer>>, thread |-> "alive", made |-> 1]

\* StreamServerGUI.__init__, lines 333-334: the port handed to
\* BackgroundHTTPServer, int(self.env.get("GUEST_HTTP_PORT", "8088"))
guest_http_port(env) ==
    IF HasKey(env, GUEST_HTTP_PORT) THEN int(get(env, GUEST_HTTP_PORT)) ELSE int(str(8088))

InitGuest ==
    /\ EnvIdle
    /\ PortsIdle
    /\ call = NoCall
    /\ StatusIdle
    /\ ComposeIdle
    /\ GuiIdle
    /\ server = <<>>
    /\ thread = "None"
    /\ handlers = [h \in Handlers |-> IdleHandler]
    /\ clock = 1
    /\ made = 0
    /\ pinged = {}
    /\ adds = 0
    /\ owner = 0
    /\ seen = NoSeen
    /\ api = NoOp
    /\ server_port = guest_http_port(values)
    /\ got = NoGet

\* BackgroundHTTPServer.start(), called on the interface thread
Start ==
    /\ seen.pc = "idle"
    /\ thread = "None" => made < MaxStarts
    /\ LET s == start(server, thread)
       IN  /\ server' = s.server
           /\ thread' = s.thread
           /\ made' = made + s.made
           /\ pinged' = IF s.made = 1 THEN {} ELSE pinged
           /\ owner' = IF s.made = 1 THEN adds ELSE owner
    /\ api' = [name |-> "start", alive |-> thread # "None"]
    /\ UNCHANGED <<envVars, portVars, call, statusVars, composeVars, guiVars, server_port, got, handlers, clock,
                   adds, seen>>

\* BackgroundHTTPServer.stop(), called on the interface thread. Handlers still
\* running keep writing to the closed server object, which nothing reads
Stop ==
    /\ seen.pc = "idle"
    /\ server' = <<>>
    /\ thread' = "None"
    /\ handlers' = [h \in Handlers |-> IdleHandler]
    /\ api' = [name |-> "stop", alive |-> thread # "None"]
    /\ UNCHANGED <<envVars, portVars, call, statusVars, composeVars, guiVars, server_port, got, clock, made,
                   pinged, adds, owner, seen>>

\* do_GET up to line 133, or all of it: a request arrives from ip; when its
\* path starts with "/api/time" the address is added to the set (and the
\* handler goes on to line 134), otherwise SimpleHTTPRequestHandler.do_GET
\* serves a file and the server object is not touched
do_GET(h) ==
    /\ thread = "alive"
    /\ handlers[h].pc = "idle"
    /\ adds < MaxPings
    /\ \E ip \in Addresses, path \in Paths :
          /\ got' = [path |-> path, ip |-> ip]
          /\ IF startswith(path, API_TIME)
             THEN /\ server' = <<[server[1] EXCEPT !.unique_clients = add(@, ip)]>>
                  /\ pinged' = pinged \cup {ip}
                  /\ adds' = adds + 1
                  /\ handlers' = [handlers EXCEPT ![h] = Handler("added", adds + 1, 0)]
             ELSE UNCHANGED <<server, pinged, adds, handlers>>
    /\ UNCHANGED <<envVars, portVars, call, statusVars, composeVars, guiVars, server_port, thread, clock,
                   made, owner, seen, api>>

\* line 134, right-hand side: time.time() returns
ReadClock(h) ==
    /\ handlers[h].pc = "added"
    /\ \E now \in {clock, clock + 1} :
          /\ clock' = now
          /\ handlers' = [handlers EXCEPT ![h] = Handler("timed", @.n, now)]
    /\ UNCHANGED <<envVars, portVars, call, statusVars, composeVars, guiVars, server_port, got, server, thread,
                   made, pinged, adds, owner, seen, api>>

\* line 134, the assignment: self.last_ping = <the value read>
StoreLastPing(h) ==
    /\ handlers[h].pc = "timed"
    /\ server' = <<[server[1] EXCEPT !.last_ping = handlers[h].now]>>
    /\ owner' = handlers[h].n
    /\ handlers' = [handlers EXCEPT ![h] = IdleHandler]
    /\ UNCHANGED <<envVars, portVars, call, statusVars, composeVars, guiVars, server_port, got, thread, clock,
                   made, pinged, adds, seen, api>>

\* refresh_status line 442: guests = self.http_server.client_count
ReadCount ==
    /\ seen.pc = "idle"
    /\ seen' = Seen(IF client_count(server) # 0 THEN "counted" ELSE "idle",
                    client_count(server), adds, 0, 0)
    /\ UNCHANGED <<envVars, portVars, call, statusVars, composeVars, guiVars, server_port, got, server, thread,
                   handlers, clock, made, pinged, adds, owner, api>>

\* refresh_status line 444: elapsed = time.time() - self.http_server.last_ping
ReadLastPing ==
    /\ seen.pc = "counted"
    /\ seen' = Seen("idle", seen.count, seen.upto, last_ping(server), owner)
    /\ UNCHANGED <<envVars, portVars, call, statusVars, composeVars, guiVars, server_port, got, server, thread,
                   handlers, clock, made, pinged, adds, owner, api>>

NextGuest ==
    \/ Start
    \/ Stop
    \/ \E h \in Handlers : do_GET(h) \/ ReadClock(h) \/ StoreLastPing(h)
    \/ ReadCount
    \/ ReadLastPing

SpecGuest == InitGuest /\ [][NextGuest]_vars

----------------------------------------------------------------------------
(* Claims about the guest service (SpecGuest) *)

\* C12: while the service runs, clientCount() is the number of distinct
\* addresses that have pinged /api/time since it was started, under any
\* interleaving of the handlers; repeated pings of one address count once.
C12_CountsDistinctAddresses ==
    thread = "alive" => client_count(server) = Cardinality(pinged)

\* three pings handled by the first server, from two addresses
C12_Witness ==
    /\ thread = "alive"
    /\ made = 1
    /\ adds = 3
    /\ client_count(server) = 2
    /\ \A h \in Handlers : handlers[h].pc = "idle"

\* C13 (as stated): the address set and the last-contact timestamp are
\* written and read together: a reader that sees the set with a registration
\* in it sees the timestamp of that registration, never an older one, and
\* never the timestamp of a registration the set it saw does not hold yet.
C13_PairReadTogether ==
    (seen.pc = "idle" /\ seen.count > 0) => seen.from = seen.upto

\* C14 (as stated): between a start() and the next stop(), clientCount()
\* never decreases and lastContact() never moves backwards; the count
\* returns to 0 only through stop().
C14_MonotoneWithinRun ==
    [][ /\ (thread = "alive" /\ thread' = "alive" /\ made' = made) =>
              /\ client_count(server') >= client_count(server)
              /\ last_ping(server') >= last_ping(server)
        /\ (client_count(server) > 0 /\ client_count(server') = 0) =>
              api'.name = "stop" ]_vars

\* C15: start() while the service is running changes nothing: no second
\* server or thread is made and the registry is untouched; start() after
\* stop() makes a new server and a live thread.
C15_StartIdempotent ==
    [][ Start =>
          /\ thread = "alive" =>
                /\ server' = server
                /\ thread' = thread
                /\ made' = made
                /\ pinged' = pinged
          /\ thread = "None" =>
                /\ server' = <<GuestTrackerHTTPServer>>
                /\ thread' = "alive"
                /\ made' = made + 1 ]_vars

\* start() was called on the running second server, which has guests
C15_Witness ==
    /\ api = [name |-> "start", alive |-> TRUE]
    /\ made = 2
    /\ thread = "alive"
    /\ client_count(server) > 0

\* a step in which a handler thread receives a GET
GetArrives == \E h \in Handlers : do_GET(h)

\* the step registers the caller: the address is in the set and a handler is
\* on its way to store the timestamp
CallerRegistered ==
    /\ got'.ip \in server'[1].unique_clients
    /\ adds' = adds + 1
    /\ \E h \in Handlers : handlers'[h] = Handler("added", adds', 0)

\* the step leaves the address set and the timestamp alone, and no handler
\* enters register_client
RegistryUntouched ==
    /\ server' = server
    /\ handlers' = handlers
    /\ adds' = adds
    /\ pinged' = pinged

\* C22 (as stated): a GET on /api/time adds the caller's address to the set
\* and updates the timestamp; a GET on any other path, also one that only
\* begins with the same characters such as /api/timetable, leaves the address
\* set and the timestamp unchanged.
C22_OnlyReservedPathRegisters ==
    [][ GetArrives =>
          IF got'.path = API_TIME THEN CallerRegistered ELSE RegistryUntouched ]_vars

\* what the code does: every path that begins with /api/time registers the
\* caller, every other path leaves the registry alone
C22_ReservedPrefixRegisters ==
    [][ GetArrives =>
          IF startswith(got'.path, API_TIME) THEN CallerRegistered ELSE RegistryUntouched ]_vars

\* a GET on /api/timetable was handled and its caller is in the address set
C22_TimetableRegistered ==
    /\ got.path = API_TIMETABLE
    /\ thread = "alive"
    /\ pinged = {got.ip}
    /\ client_count(server) = 1

----------------------------------------------------------------------------
(* StreamServerGUI: the buttons, the status panel, the status queue and    *)
(* its 500 ms poll. Button commands and root.after callbacks all run on    *)
(* the thread that runs root.mainloop(); the class starts no other thread  *)
(* than the guest server's.                                                *)

\* bound: messages put on the status queue in one behaviour
MaxMessages == 2

\* the thread that constructs StreamServerGUI and runs root.mainloop()
MainThread == "interface"

\* result.stdout of a compose command that succeeded: nothing, or two lines
\* of output around a blank one
Stdouts == {<<>>, <<"a", NL, " ", NL, "b">>}

\* the text put on the queue for a call that ended as r: result.stdout,
\* str(exc) of the RuntimeError (one line when docker is missing, the hint,
\* a blank line and docker's report when the daemon is down), or exc.stderr
message_of(r, stdout) ==
    IF r.raised = "none" THEN stdout
    ELSE IF r.raised = "CalledProcessError" THEN <<"e">>
    ELSE IF r.message = DOCKER_DAEMON_HINT THEN <<"h", NL, NL, "r">>
    ELSE <<"i">>

\* queue.Queue.put
put(q, message) == Append(q, message)

\* a get that takes the newest message instead of the oldest
get_nowait_newest(q) == [message |-> q[Len(q)], rest |-> SubSeq(q, 1, Len(q) - 1)]

\* queue.Queue.get_nowait on a queue that is not empty
get_nowait(q) == [message |-> Head(q), rest |-> Tail(q)]

\* lines 467-469: every line of the message that is not blank is appended
RECURSIVE append_lines(_, _)
append_lines(lg, lines) ==
    IF lines = <<>> THEN lg
    ELSE append_lines(IF strip(Head(lines)) # <<>> THEN Append(lg, Head(lines)) ELSE lg,
                      Tail(lines))

\* lines 465-471: take messages until queue.Empty
RECURSIVE drain(_, _, _)
drain(q, taken, lg) ==
    IF q = <<>> THEN [taken |-> taken, log |-> lg]
    ELSE LET g == get_nowait(q)
         IN  drain(g.rest, Append(taken, g.message),
                   append_lines(lg, SplitLines(g.message)))

\* the slow operations a call made, each tagged with the thread it ran on
OnThread(invoked, thr) == {[what |-> invoked[i].cmd, on |-> thr] : i \in 1..Len(invoked)}

\* what check_stream_availability returns
StreamStates == {"Live stream detected", "Stream endpoint unreachable"}

\* the text the tool prints for a status query: any form once the command
\* ran, nothing to parse when it did not
FormsPrinted(t) ==
    IF run_compose_command(t, "ps").raised = "none" THEN Forms ELSE {"malformed"}

\* lines 442-450: the guest count shown
guest_count(srv, recent) ==
    IF client_count(srv) = 0 THEN "0"
    ELSE IF recent THEN "active" ELSE "(idle)"

\* refresh_status(): the values shown afterwards, the query it made and the
\* error it let through. When get_compose_status raises at line 436 nothing
\* after it runs and the panel keeps what it showed
refresh_status(t, form, units, stream, srv) ==
    LET q == get_compose_status_from(t, form, units)
    IN  IF q.raised # "none"
        THEN [query |-> q,
              server_status |-> server_status_var,
              stream_status |-> stream_status_var,
              guest_count |-> guest_count_var,
              slow |-> OnThread(q.ps.invoked, MainThread)]
        ELSE [query |-> q,
              server_status |-> IF q.status.running THEN "Running" ELSE "Stopped",
              stream_status |-> stream,
              guest_count |-> guest_count(srv, TRUE),
              slow |-> OnThread(q.ps.invoked, MainThread)
                          \cup {[what |-> "urlopen", on |-> MainThread]}]

\* the part of a handler that is refresh_status(): r is what it computed
Refreshed(r, form) ==
    /\ status' = r.query.status
    /\ polled' = r.query.units
    /\ raised' = r.query.raised
    /\ result' = r.query.ps
    /\ asked' = <<form>>
    /\ met' = <<tool>>
    /\ server_status_var' = r.server_status
    /\ stream_status_var' = r.stream_status
    /\ guest_count_var' = r.guest_count

InitGui ==
    /\ EnvIdle
    /\ PortsIdle
    /\ call = NoCall
    /\ services \in ReportedUnits
    /\ polled = <<>>
    /\ status = NoStatus
    /\ tool \in {t \in Toolings : ~t.legacy}
    /\ result = NoOutcome
    /\ raised = "none"
    /\ asked = <<>>
    /\ met = <<>>
    /\ GuestIdle
    /\ GuiIdle
    /\ server_port = guest_http_port(values)

\* StreamServerGUI.__init__, lines 347-353: the first refresh_status(), the
\* guest server started, the poll scheduled. An error out of refresh_status
\* ends the construction
Construct ==
    /\ window = "init"
    /\ \E form \in FormsPrinted(tool), stream \in StreamStates :
          LET r == refresh_status(tool, form, services, stream, server)
              s == start(server, thread)
          IN  /\ Refreshed(r, form)
              /\ executed' = executed \cup r.slow
              /\ window' = IF r.query.raised # "none" THEN "crashed" ELSE "open"
              /\ IF r.query.raised # "none"
                 THEN UNCHANGED <<server, thread, made, api>>
                 ELSE /\ server' = s.server
                      /\ thread' = s.thread
                      /\ made' = made + s.made
                      /\ api' = [name |-> "start", alive |-> thread # "None"]
    /\ UNCHANGED <<envVars, portVars, call, services, tool, handlers, clock, pinged,
                   adds, owner, seen, server_port, got, status_queue, produced, delivered, log>>

\* start_server / stop_server: the compose call, the message put on the
\* queue, then refresh_status()
StartOrStop(args) ==
    /\ Len(produced) < MaxMessages
    /\ LET c == run_compose_command(tool, args)
       IN  \E stdout \in (IF c.raised = "none" THEN Stdouts ELSE {<<>>}),
              form \in FormsPrinted(tool), stream \in StreamStates :
              LET r == refresh_status(tool, form, services, stream, server)
              IN  /\ status_queue' = put(status_queue, message_of(c, stdout))
                  /\ produced' = Append(produced, message_of(c, stdout))
                  /\ Refreshed(r, form)
                  /\ executed' = executed \cup OnThread(c.invoked, MainThread) \cup r.slow
    /\ UNCHANGED <<envVars, portVars, call, services, tool, guestVars, window,
                   delivered, log>>

\* the Start Server button
StartServer ==
    /\ window = "open"
    /\ StartOrStop("up")

\* the Stop Server button
StopServer ==
    /\ window = "open"
    /\ StartOrStop("down")

\* the Refresh button
RefreshStatus ==
    /\ window = "open"
    /\ \E form \in FormsPrinted(tool), stream \in StreamStates :
          LET r == refresh_status(tool, form, services, stream, server)
          IN  /\ Refreshed(r, form)
              /\ executed' = executed \cup r.slow
    /\ UNCHANGED <<envVars, portVars, call, services, tool, guestVars, window,
                   status_queue, produced, delivered, log>>

\* _poll_status_queue, run by root.after every 500 ms
PollStatusQueue ==
    /\ window = "open"
    /\ LET d == drain(status_queue, delivered, log)
       IN  /\ delivered' = d.taken
           /\ log' = d.log
    /\ status_queue' = <<>>
    /\ UNCHANGED <<envVars, portVars, call, statusVars, composeVars, guestVars, window,
                   produced, server_status_var, stream_status_var, guest_count_var,
                   executed>>

\* on_close: the guest server stopped, the window destroyed
OnClose ==
    /\ window = "open"
    /\ window' = "closed"
    /\ server' = <<>>
    /\ thread' = "None"
    /\ api' = [name |-> "stop", alive |-> thread # "None"]
    /\ UNCHANGED <<envVars, portVars, call, statusVars, composeVars, handlers, clock,
                   made, pinged, adds, owner, seen, server_port, got, status_queue, produced, delivered,
                   log, server_status_var, stream_status_var, guest_count_var, executed>>

\* the text auto_resolve_ports puts on the queue: "Updated ports:" and one
\* line "  key=value" for every entry of the mapping
RECURSIVE updated_lines(_)
updated_lines(upd) ==
    IF upd = <<>> THEN <<>>
    ELSE <<NL, " ", " ">> \o upd[1][1] \o <<"=">> \o upd[1][2] \o updated_lines(Tail(upd))

updated_message(upd) ==
    <<"U", "p", "d", "a", "t", "e", "d", " ", "p", "o", "r", "t", "s", ":">>
        \o updated_lines(upd)

\* the Analyze Ports button: auto_resolve_ports, that is resolve_ports on
\* self.env and, when it returns changes, the message put on the queue. An
\* error out of resolve_ports ends the handler; the window stays open
AnalyzePorts ==
    /\ window = "open"
    /\ Len(produced) < MaxMessages
    /\ LET res == resolve_ports(values)
           changed == res.outcome = "returned" /\ res.updated # <<>>
           message == updated_message(res.updated)
       IN  /\ values' = res.env
           /\ updated' = res.updated
           /\ outcome' = res.outcome
           /\ fileText' = IF saves(res) THEN save(res.env) ELSE fileText
           /\ written' = IF saves(res) THEN <<save(res.env)>> ELSE <<>>
           /\ quiet' = IF res.outcome # "returned" THEN 0
                       ELSE IF quiet < 2 THEN quiet + 1 ELSE 2
           /\ status_queue' = IF changed THEN put(status_queue, message) ELSE status_queue
           /\ produced' = IF changed THEN Append(produced, message) ELSE produced
    /\ valuesBefore' = values
    /\ textBefore' = fileText
    /\ UNCHANGED <<fileExists, pc, firstLoad, stage, absentAtLoad, busyTcp, busyUdp, call,
                   statusVars, composeVars, guestVars, window, delivered, log,
                   server_status_var, stream_status_var, guest_count_var, executed>>

NextGui ==
    \/ Construct
    \/ StartServer
    \/ StopServer
    \/ RefreshStatus
    \/ PollStatusQueue
    \/ OnClose
    \/ ToolingChanges /\ tool'.legacy = tool.legacy

SpecGui == InitGui /\ [][NextGui]_vars

(* Specification SpecQueue: the interface on a host whose tooling stays as *)
(* it is, with the poll scheduled fairly                                   *)

\* the daemon down (every call puts the hint, three lines with a blank one),
\* and all well (every call puts its output)
QueueToolings ==
    { Tooling("installed", FALSE, "down", "zero"),
      Tooling("installed", FALSE, "up", "zero") }

InitQueue ==
    /\ InitGui
    /\ services = <<>>
    /\ tool \in QueueToolings

NextQueue ==
    \/ Construct
    \/ StartServer
    \/ StopServer
    \/ RefreshStatus
    \/ PollStatusQueue
    \/ OnClose

\* root.after(500, self._poll_status_queue) at the end of every poll (line
\* 472) keeps the poll running for as long as the window is open
SpecQueue == InitQueue /\ [][NextQueue]_vars /\ WF_vars(PollStatusQueue)

(* Specification SpecAnalyze: the interface with its configuration file    *)
(* loaded and the Analyze Ports button, on a host whose tooling stays as   *)
(* it is                                                                   *)

InitAnalyze ==
    /\ \E range \in RangeChoices : fileText = EnvFile({}, range)
    /\ fileExists = TRUE
    /\ values = load(<<>>, fileText)
    /\ pc = "ready"
    /\ firstLoad = values
    /\ stage = "loaded"
    /\ absentAtLoad = FALSE
    /\ busyTcp = {}
    /\ busyUdp = {}
    /\ updated = <<>>
    /\ outcome = "none"
    /\ valuesBefore = values
    /\ textBefore = fileText
    /\ quiet = 0
    /\ written = <<>>
    /\ call = NoCall
    /\ services = <<>>
    /\ polled = <<>>
    /\ status = NoStatus
    /\ tool \in QueueToolings
    /\ result = NoOutcome
    /\ raised = "none"
    /\ asked = <<>>
    /\ met = <<>>
    /\ GuestIdle
    /\ GuiIdle
    /\ server_port = guest_http_port(values)

NextAnalyze ==
    \/ Construct
    \/ StartServer
    \/ StopServer
    \/ RefreshStatus
    \/ AnalyzePorts
    \/ PollStatusQueue
    \/ OnClose

SpecAnalyze == InitAnalyze /\ [][NextAnalyze]_vars

----------------------------------------------------------------------------
(* Claims about the interface (SpecGui, SpecQueue, SpecAnalyze) *)

\* the operations the status panel depends on that can take seconds
SlowOperations == {"docker info", "docker compose", "urlopen"}

\* C16 (as stated): every slow operation (compose up, down and status, the
\* daemon probe, the HTTP probe of the stream) executes on a thread other
\* than the interface thread.
C16_NeverOnInterfaceThread ==
    \A x \in executed : x.what \in SlowOperations => x.on # "interface"

\* the lines of the messages, in order, that are not blank
RECURSIVE VisibleLines(_)
VisibleLines(messages) ==
    IF messages = <<>> THEN <<>>
    ELSE LET lines == SplitLines(Head(messages))
         IN  SelectSeq(lines, LAMBDA l : \E i \in 1..Len(l) : l[i] \notin {" ", NL})
                 \o VisibleLines(Tail(messages))

\* C17: every message put on the status queue is taken by the interface
\* exactly once and in the order it was put: what was taken, followed by what
\* still waits, is what was put; the log holds the visible lines of the
\* messages taken, in that order; and while the window stays open a queue
\* that holds messages is emptied by a later poll.
C17_DeliveredOnceInOrder ==
    /\ [](/\ delivered \o status_queue = produced
          /\ log = VisibleLines(delivered))
    /\ (status_queue # <<>>) ~> (status_queue = <<>> \/ window = "closed")

\* two different messages were put before one poll took both
C17_Witness ==
    /\ Len(delivered) = 2
    /\ delivered[1] # delivered[2]
    /\ status_queue = <<>>
    /\ Len(log) = 2

\* C18 (as stated): after any status poll in which the query failed, the
\* server state shown is Unknown, not Stopped and not Running.
C18_UnknownAfterFailedPoll ==
    (window = "open" /\ asked # <<>> /\ QueryFails(met[1], asked[1])) =>
        server_status_var = "Unknown"

\* C25 (as stated): while the guest server runs, the GUEST_HTTP_PORT value of
\* the environment record, which the join URL shows, is the port the guest
\* server is bound to, after any sequence of Start, Stop, Refresh and Analyze
\* Ports.
C25_RecordedPortIsBoundPort ==
    thread = "alive" => guest_http_port(values) = server_port

\* Analyze Ports moved the recorded port off the port the guest server holds
C25_RecordedPortMoved ==
    /\ thread = "alive"
    /\ outcome = "returned"
    /\ HasKey(updated, GUEST_HTTP_PORT)
    /\ guest_http_port(values) = server_port + 1
    /\ fileText = save(values)

====
